---- MODULE Spec2Model ----
(***************************************************************************)
(* Schnorr identification (Prover / Verifier) and the Fiat-Shamir          *)
(* signature of src/schnorr.py, as a state machine.                        *)
(*                                                                         *)
(* The objects' fields are the variables; every method is one action.      *)
(* Python's None is the value None (no field is ever given the number -1, *)
(* so it cannot be mistaken for one); an operation on None raises          *)
(* TypeError, which the model records in err.                              *)
(***************************************************************************)
EXTENDS Integers, Sequences, FiniteSets, TLC

VARIABLES
    p, g,                 \* SchnorrProtocol.p, SchnorrProtocol.g
    x, y, r,              \* Prover.x, Prover.y, Prover.r
    vy, c,                \* Verifier.y, Verifier.c
    t, s, valid,          \* the caller's t, s and valid (run_protocol's locals)
    private_key, public_key, message, sig, sig_valid,  \* demo_signature's locals
    k,                    \* the nonce schnorr_signature drew (its local k)
    checked,              \* the message last handed to verify_signature
    pc,                   \* the driver's position
    vy_b, c_b,              \* a second Verifier's y and c
    t_b, s_b, valid_b,       \* the t, s and valid of the caller's second session
    pc_b,                  \* the position of the second session
    out,                  \* what print has written: (name, value) pairs
    lastOp, err,          \* the last call made and the exception it raised
    calls,                \* the number of calls the driver has made
    \* History variables: they record what the calls did and steer nothing.
    phase,                \* where the completed calls stand in the session order
    usedWith, reused,     \* the challenges the nonce in Prover.r has answered
    lastV, sameArgs, sameC, prevRes, \* the completed calls of Verifier.verify
    lastS, sameSigArgs, prevSigRes   \* the calls of verify_signature

protocolVars == <<p, g>>
proverVars   == <<x, y, r>>
verifierVars == <<vy, c>>
callerVars   == <<t, s, valid>>
sigVars      == <<private_key, public_key, message, sig, sig_valid, k, checked>>
history      == <<phase, usedWith, reused, lastV, sameArgs, sameC, prevRes>>
secondVars   == <<vy_b, c_b, t_b, s_b, valid_b, pc_b>>
sigHist      == <<lastS, sameSigArgs, prevSigRes>>
vars == <<p, g, x, y, r, vy, c, t, s, valid, private_key, public_key, message,
          sig, sig_valid, k, checked, pc, lastOp, err, calls, phase, usedWith, reused,
          lastV, sameArgs, sameC, prevRes, vy_b, c_b, t_b, s_b, valid_b, pc_b, out,
          lastS, sameSigArgs, prevSigRes>>

-----------------------------------------------------------------------------
(* Values *)

None == -1

DefaultP == 23
DefaultG == 5
DemoSecret == 6

\* The secrets a caller constructs a Prover with in the specifications that
\* call the methods in any order: the demo's secret 6 (which shares the factor
\* 2 with p-1), 7 (coprime to p-1) and 11 (which shares the factor 11).
Secrets == {DemoSecret, 7, 11}

\* The messages signed and checked: demo_signature's two, and two whose
\* concatenation with str(R) is ambiguous ("1" + "0" = "10" + "").
Messages == {"Hello, Crypto!", "Hello, World!", "0", ""}

Bool(b) == IF b THEN "True" ELSE "False"

-----------------------------------------------------------------------------
(* Arithmetic *)

\* random.randint(a, b): any integer of a..b
\* A draw that can also give b + 1
randint_above(a, b) == a..(b + 1)

randint(a, b) == a .. b

\* The inverse of a modulo m, which pow takes as the base when its exponent
\* is negative (Python 3.8 and later; ValueError if a has no inverse, which no
\* base in 1..p-1 lacks for a prime p)
mod_inverse(a, m) == CHOOSE i \in 0..(m - 1) : (a * i) % m = 1

\* pow(base, exponent, modulus): by repeated squaring for exponent >= 0, and
\* the inverse's power for exponent < 0
RECURSIVE pow(_, _, _)
pow(base, exponent, modulus) ==
    IF exponent < 0 THEN pow(mod_inverse(base, modulus), 0 - exponent, modulus)
    ELSE IF exponent = 0 THEN 1 % modulus
    ELSE IF exponent % 2 = 0
         THEN LET h == pow(base, exponent \div 2, modulus) IN (h * h) % modulus
         ELSE (base * pow(base, exponent - 1, modulus)) % modulus

\* int(hashlib.sha256(data).hexdigest(), 16) for the byte strings the model
\* can hash, each reduced modulo 22 * 65536 (which leaves its residue modulo
\* p - 1 = 22 unchanged) to fit TLC's integers.  Computed with hashlib.
sha256_int ==
       ("1Hello, Crypto!" :> 1361812)
    @@ ("1Hello, World!" :> 149434)
    @@ ("10" :> 1252821)
    @@ ("1" :> 744267)
    @@ ("2Hello, Crypto!" :> 1134266)
    @@ ("2Hello, World!" :> 690571)
    @@ ("20" :> 1122347)
    @@ ("2" :> 1420085)
    @@ ("3Hello, Crypto!" :> 458898)
    @@ ("3Hello, World!" :> 1186646)
    @@ ("30" :> 562164)
    @@ ("3" :> 40910)
    @@ ("4Hello, Crypto!" :> 443613)
    @@ ("4Hello, World!" :> 515772)
    @@ ("40" :> 315651)
    @@ ("4" :> 704394)
    @@ ("5Hello, Crypto!" :> 701808)
    @@ ("5Hello, World!" :> 1147837)
    @@ ("50" :> 881899)
    @@ ("5" :> 1303453)
    @@ ("6Hello, Crypto!" :> 1046943)
    @@ ("6Hello, World!" :> 1246513)
    @@ ("60" :> 360649)
    @@ ("6" :> 1152643)
    @@ ("7Hello, Crypto!" :> 183256)
    @@ ("7Hello, World!" :> 106061)
    @@ ("70" :> 9482)
    @@ ("7" :> 1123409)
    @@ ("8Hello, Crypto!" :> 446506)
    @@ ("8Hello, World!" :> 186733)
    @@ ("80" :> 727804)
    @@ ("8" :> 1402019)
    @@ ("9Hello, Crypto!" :> 265132)
    @@ ("9Hello, World!" :> 12558)
    @@ ("90" :> 931683)
    @@ ("9" :> 374199)
    @@ ("10Hello, Crypto!" :> 721722)
    @@ ("10Hello, World!" :> 1194876)
    @@ ("100" :> 709382)
    @@ ("11Hello, Crypto!" :> 1173299)
    @@ ("11Hello, World!" :> 874926)
    @@ ("110" :> 1220083)
    @@ ("11" :> 782008)
    @@ ("12Hello, Crypto!" :> 623195)
    @@ ("12Hello, World!" :> 895085)
    @@ ("120" :> 287863)
    @@ ("12" :> 370968)
    @@ ("13Hello, Crypto!" :> 244933)
    @@ ("13Hello, World!" :> 1098008)
    @@ ("130" :> 527471)
    @@ ("13" :> 516728)
    @@ ("14Hello, Crypto!" :> 529726)
    @@ ("14Hello, World!" :> 1335161)
    @@ ("140" :> 910699)
    @@ ("14" :> 1023585)
    @@ ("15Hello, Crypto!" :> 1373653)
    @@ ("15Hello, World!" :> 803954)
    @@ ("150" :> 207995)
    @@ ("15" :> 1280987)
    @@ ("16Hello, Crypto!" :> 423372)
    @@ ("16Hello, World!" :> 328014)
    @@ ("160" :> 999617)
    @@ ("16" :> 298201)
    @@ ("17Hello, Crypto!" :> 1293320)
    @@ ("17Hello, World!" :> 1250312)
    @@ ("170" :> 1100607)
    @@ ("17" :> 47587)
    @@ ("18Hello, Crypto!" :> 268790)
    @@ ("18Hello, World!" :> 817513)
    @@ ("180" :> 1094661)
    @@ ("18" :> 315722)
    @@ ("19Hello, Crypto!" :> 1269365)
    @@ ("19Hello, World!" :> 241811)
    @@ ("190" :> 374868)
    @@ ("19" :> 522087)
    @@ ("20Hello, Crypto!" :> 1401702)
    @@ ("20Hello, World!" :> 177902)
    @@ ("200" :> 568799)
    @@ ("21Hello, Crypto!" :> 1281019)
    @@ ("21Hello, World!" :> 952640)
    @@ ("210" :> 756385)
    @@ ("21" :> 848963)
    @@ ("22Hello, Crypto!" :> 775065)
    @@ ("22Hello, World!" :> 1330428)
    @@ ("220" :> 945629)
    @@ ("22" :> 1432841)

\* str(R).encode() + message.encode()
hash_input(R, m) == ToString(R) \o m

\* e = int(h.hexdigest(), 16) % (protocol.p - 1)
hash_challenge(R, m, pp) == sha256_int[hash_input(R, m)] % (pp - 1)

-----------------------------------------------------------------------------
(* Prover *)

\* Prover.__init__: the public key y = g^x mod p
public_key_of(gg, secret, pp) == pow(gg, secret, pp)

\* Prover.commit's t = g^r mod p
commitment(gg, nonce, pp) == pow(gg, nonce, pp)

\* A response reduced modulo p instead of p - 1
response_mod_p(nonce, challenge, secret, pp) == (nonce + challenge * secret) % pp

\* Prover.respond's s = (r + c*x) mod (p-1)
response(nonce, challenge, secret, pp) == (nonce + challenge * secret) % (pp - 1)

\* Prover.commit(): draws r, stores it over whatever self.r held, returns t.
commit ==
    /\ \E nonce \in randint(1, p - 2) :
          /\ r' = nonce
          /\ t' = commitment(g, nonce, p)
    /\ lastOp' = "commit"
    /\ err' = "none"
    /\ UNCHANGED <<protocolVars, x, y, verifierVars, s, valid, sigVars>>

\* Prover.respond(challenge).  self.r + challenge * self.x raises TypeError
\* when self.r or challenge is None; the caller's s is then not assigned.
respond(challenge_) ==
    /\ lastOp' = "respond"
    /\ IF r = None \/ challenge_ = None
       THEN /\ err' = "TypeError"
            /\ UNCHANGED s
       ELSE /\ err' = "none"
            /\ s' = response(r, challenge_, x, p)
    /\ UNCHANGED <<protocolVars, proverVars, verifierVars, t, valid, sigVars>>

-----------------------------------------------------------------------------
(* Verifier *)

\* A left-hand side that squares the generator
verify_lhs_squared(gg, pp, response_) == pow(gg * gg, response_, pp)

\* Verifier.verify's lhs = pow(g, s, p)
verify_lhs(gg, pp, response_) == pow(gg, response_, pp)

\* A right-hand side left unreduced modulo p
verify_rhs_unreduced(pp, yy, cc, commitment_) == commitment_ * pow(yy, cc, pp)

\* Verifier.verify's rhs = (t * pow(y, c, p)) % p
verify_rhs(pp, yy, cc, commitment_) == (commitment_ * pow(yy, cc, pp)) % pp

\* A check that refuses a transcript once the last verify has accepted
verify_eq_once(gg, pp, yy, cc, commitment_, response_) ==
    LET lhs == pow(gg, response_, pp)
        rhs == (commitment_ * pow(yy, cc, pp)) % pp
    IN  lhs = rhs /\ lastV.res # "True"

\* A check that adds y^c to the commitment instead of multiplying by it
verify_eq_sum(gg, pp, yy, cc, commitment_, response_) ==
    LET lhs == pow(gg, response_, pp)
        rhs == (commitment_ + pow(yy, cc, pp)) % pp
    IN  lhs = rhs

\* A check that leaves the challenge out of the exponent of y
verify_eq_no_challenge(gg, pp, yy, cc, commitment_, response_) ==
    LET lhs == pow(gg, response_, pp)
        rhs == (commitment_ * pow(yy, 1, pp)) % pp
    IN  lhs = rhs

\* Verifier.verify's lhs == rhs
verify_eq(gg, pp, yy, cc, commitment_, response_) ==
    LET lhs == verify_lhs(gg, pp, response_)
        rhs == verify_rhs(pp, yy, cc, commitment_)
    IN  lhs = rhs

\* Verifier.challenge(): draws c, stores it in self.c, returns it.
challenge ==
    /\ \E cc \in randint(1, p - 2) : c' = cc
    /\ lastOp' = "challenge"
    /\ err' = "none"
    /\ UNCHANGED <<protocolVars, proverVars, vy, callerVars, sigVars>>

\* The challenge Verifier.verify reads: self.c
verify_challenge == c

\* Verifier.verify(commitment, response), called with the caller's t and s.
\* pow(g, None, p), pow(y, None, p) and None * int raise TypeError; the
\* caller's valid is then not assigned.
verify_consuming ==
    /\ lastOp' = "verify"
    /\ IF t = None \/ s = None \/ c = None
       THEN /\ err' = "TypeError"
            /\ UNCHANGED valid
       ELSE /\ err' = "none"
            /\ valid' = Bool(verify_eq(g, p, vy, verify_challenge, t, s))
    /\ c' = None
    /\ UNCHANGED <<protocolVars, proverVars, vy, t, s, sigVars>>

verify ==
    /\ lastOp' = "verify"
    /\ IF t = None \/ s = None \/ c = None
       THEN /\ err' = "TypeError"
            /\ UNCHANGED valid
       ELSE /\ err' = "none"
            /\ valid' = Bool(verify_eq(g, p, vy, verify_challenge, t, s))
    /\ UNCHANGED <<protocolVars, proverVars, verifierVars, t, s, sigVars>>

-----------------------------------------------------------------------------
(* Signatures *)

\* A signature whose response is reduced modulo p instead of p - 1
schnorr_signature_mod_p(m, key, kk, gg, pp) ==
    LET R  == pow(gg, kk, pp)
        e  == hash_challenge(R, m, pp)
        ss == (kk + e * key) % pp
    IN  <<ss, e>>

\* schnorr_signature(message, private_key, protocol) with the nonce kk drawn
schnorr_signature(m, key, kk, gg, pp) ==
    LET R  == pow(gg, kk, pp)
        e  == hash_challenge(R, m, pp)
        ss == (kk + e * key) % (pp - 1)
    IN  <<ss, e>>

\* An inverse exponent that is off by one: p - e
inverse_exponent_off(pp, e) == pp - e

\* The exponent verify_signature raises the public key to: p - 1 - e
inverse_exponent(pp, e) == pp - 1 - e

\* verify_signature's reconstructed R
reconstruct_R(signature, pub, gg, pp) ==
    LET ss    == signature[1]
        e     == signature[2]
        g_s   == pow(gg, ss, pp)
        y_inv == pow(pub, inverse_exponent(pp, e), pp)
    IN  (g_s * y_inv) % pp

\* A verification that also compares the reconstructed R with the
\* commitment of the signer's last nonce, when there is one
verify_signature_last_nonce(m, signature, pub, gg, pp) ==
    LET e       == signature[2]
        R       == reconstruct_R(signature, pub, gg, pp)
        e_check == hash_challenge(R, m, pp)
    IN  e = e_check /\ (k # None => R = pow(gg, k, pp))

\* verify_signature(message, signature, public_key, protocol)
verify_signature(m, signature, pub, gg, pp) ==
    LET e       == signature[2]
        R       == reconstruct_R(signature, pub, gg, pp)
        e_check == hash_challenge(R, m, pp)
    IN  e = e_check

NoSig == <<>>

\* demo_signature's sig = schnorr_signature(message, private_key, protocol)
sign ==
    /\ \E m \in Messages, kk \in randint(1, p - 2) :
          /\ message' = m
          /\ k' = kk
          /\ sig' = schnorr_signature(m, private_key, kk, g, p)
    /\ lastOp' = "schnorr_signature"
    /\ err' = "none"
    /\ UNCHANGED <<protocolVars, proverVars, verifierVars, callerVars,
                   private_key, public_key, sig_valid, checked>>

\* demo_signature's verify_signature(m, sig, public_key, protocol), for the
\* signed message (valid) or another one (tampered)
check_signature ==
    /\ sig # NoSig
    /\ \E m \in Messages :
          /\ checked' = m
          /\ sig_valid' = Bool(verify_signature(m, sig, public_key, g, p))
    /\ lastOp' = "verify_signature"
    /\ err' = "none"
    /\ UNCHANGED <<protocolVars, proverVars, verifierVars, callerVars,
                   private_key, public_key, message, sig, k>>

\* verify_signature(m, signature, public_key, protocol) for a pair that the
\* caller has received from anywhere.  No argument is validated, and pow
\* accepts the exponent p - 1 - e whatever its sign, so nothing is raised.
check_pair(m, signature) ==
    /\ checked' = m
    /\ sig_valid' = Bool(verify_signature(m, signature, public_key, g, p))
    /\ lastOp' = "verify_signature"
    /\ err' = "none"
    /\ UNCHANGED <<protocolVars, proverVars, verifierVars, callerVars,
                   private_key, public_key, message, sig, k>>

-----------------------------------------------------------------------------
(* History.  Each operator below extends a step that has set lastOp' and    *)
(* err' with the record of what that call did; a specification follows the  *)
(* histories its properties read and leaves the others unchanged.           *)

Completed(op) == lastOp' = op /\ err' = "none"

\* The session order Initial -> Committed -> Challenged -> Responded ->
\* Accepted | Rejected.  No method checks it: a call completed out of its
\* place leaves "OutOfOrder" for good.
Finished == {"Initial", "Accepted", "Rejected"}

after(from, to) == IF phase \in from THEN to ELSE "OutOfOrder"

TrackOrder ==
    phase' =
        IF Completed("commit") THEN after(Finished, "Committed")
        ELSE IF Completed("challenge") THEN after({"Committed"}, "Challenged")
        ELSE IF Completed("respond") THEN after({"Challenged"}, "Responded")
        ELSE IF Completed("verify")
             THEN after({"Responded"},
                        IF valid' = "True" THEN "Accepted" ELSE "Rejected")
        ELSE phase

\* usedWith: the challenge the nonce now in Prover.r answered first (None:
\* none yet).  reused: some nonce has answered two different challenges.
TrackNonce(challenge_) ==
    IF Completed("commit")
    THEN usedWith' = None /\ UNCHANGED reused
    ELSE IF Completed("respond")
    THEN /\ usedWith' = IF usedWith = None THEN challenge_ ELSE usedWith
         /\ reused' = (reused \/ (usedWith # None /\ usedWith # challenge_))
    ELSE UNCHANGED <<usedWith, reused>>

\* lastV: the arguments, the challenge read and the result of the last
\* completed verify.  sameArgs, sameC: it had the commitment and response,
\* the challenge, of the completed verify before it, whose result is prevRes.
NoCall == [t |-> None, s |-> None, c |-> None, res |-> "None"]

TrackVerify ==
    IF Completed("verify")
    THEN /\ lastV' = [t |-> t, s |-> s, c |-> c, res |-> valid']
         /\ sameArgs' = (lastV # NoCall /\ lastV.t = t /\ lastV.s = s)
         /\ sameC' = (lastV # NoCall /\ lastV.c = c)
         /\ prevRes' = lastV.res
    ELSE UNCHANGED <<lastV, sameArgs, sameC, prevRes>>

\* The last call of verify_signature: its arguments and its result, whether
\* the call before it had the same arguments, and that call's result
TrackSig(m, signature) ==
    /\ lastS' = [m |-> m, sig |-> signature, res |-> sig_valid']
    /\ sameSigArgs' = (lastS.res # "None" /\ lastS.m = m /\ lastS.sig = signature)
    /\ prevSigRes' = lastS.res

NoOrder  == UNCHANGED phase
NoNonce  == UNCHANGED <<usedWith, reused>>
NoVerify == UNCHANGED <<lastV, sameArgs, sameC, prevRes>>

-----------------------------------------------------------------------------
(* Construction *)

\* SchnorrProtocol(p=23, g=5)
ProtocolInit ==
    /\ p = DefaultP
    /\ g = DefaultG

\* Prover(protocol, secret) and Verifier(protocol, prover.y)
PartiesInit(secrets) ==
    /\ x \in secrets
    /\ y = public_key_of(g, x, p)
    /\ r = None
    /\ vy = y
    /\ c = None

\* Nothing returned to the caller yet
CallerInit ==
    /\ t = None
    /\ s = None
    /\ valid = "None"

\* demo_signature before it signs
SignerInit(keys) ==
    /\ private_key \in keys
    /\ public_key = pow(g, private_key, p)
    /\ message = ""
    /\ sig = NoSig
    /\ sig_valid = "None"
    /\ k = None
    /\ checked = ""

\* A second Verifier(protocol, prover.y), and nothing returned to its
\* session yet; the session stands at position at
SecondInit(at) ==
    /\ vy_b = y
    /\ c_b = None
    /\ t_b = None
    /\ s_b = None
    /\ valid_b = "None"
    /\ pc_b = at

NoSigCall == [m |-> "", sig |-> <<>>, res |-> "None"]

HistInit ==
    /\ lastS = NoSigCall
    /\ sameSigArgs = FALSE
    /\ prevSigRes = "None"
    /\ lastOp = "init"
    /\ err = "none"
    /\ calls = 0
    /\ phase = "Initial"
    /\ usedWith = None
    /\ reused = FALSE
    /\ lastV = NoCall
    /\ sameArgs = FALSE
    /\ sameC = FALSE
    /\ prevRes = "None"

-----------------------------------------------------------------------------
(* run_protocol: commit, challenge, respond, verify, once each, in order *)

\* run_protocol's prints before the first call: p, g, prover.x, prover.y
RunInitPrints == {<<"p", p>>, <<"g", g>>, <<"x", x>>, <<"y", y>>}

\* run_protocol's print after the call that leads to position to
RunPrints(to) ==
    IF err' # "none" THEN {}
    ELSE IF to = "challenge" THEN {<<"t", t'>>, <<"r", r'>>}
    ELSE IF to = "respond" THEN {<<"c", c'>>}
    ELSE IF to = "verify" THEN {<<"s", s'>>}
    ELSE {<<"lhs", pow(g, s, p)>>, <<"rhs", (t * pow(y, c, p)) % p>>,
          <<"valid", valid'>>}

RunInit ==
    /\ ProtocolInit
    /\ PartiesInit(randint(1, p - 2))
    /\ CallerInit
    /\ SecondInit("idle")
    /\ SignerInit({DemoSecret})
    /\ HistInit
    /\ pc = "commit"
    /\ out = RunInitPrints

RunStep(to) ==
    /\ pc' = to
    /\ out' = out \cup RunPrints(to)
    /\ TrackOrder /\ NoNonce /\ NoVerify
    /\ UNCHANGED <<calls, secondVars, sigHist>>

RunCommit    == pc = "commit"    /\ commit    /\ RunStep("challenge")
RunChallenge == pc = "challenge" /\ challenge /\ RunStep("respond")
RunRespond   == pc = "respond"   /\ respond(c) /\ RunStep("verify")
RunVerify    == pc = "verify"    /\ verify    /\ RunStep("done")

RunNext == RunCommit \/ RunChallenge \/ RunRespond \/ RunVerify

SpecRun == RunInit /\ [][RunNext]_vars

-----------------------------------------------------------------------------
(* demo_signature: sign one message, then check messages against it *)

\* demo_signature's prints before it signs: private_key, public_key
SigInitPrints == {<<"private_key", private_key>>, <<"public_key", public_key>>}

\* demo_signature's prints of the signature and of the checks' results
SigPrints ==
    IF lastOp' = "schnorr_signature"
    THEN {<<"s", sig'[1]>>, <<"e", sig'[2]>>}
    ELSE {<<IF checked' = message THEN "valid" ELSE "tampered", sig_valid'>>}

SigInit ==
    /\ ProtocolInit
    /\ PartiesInit({DemoSecret})
    /\ CallerInit
    /\ SecondInit("idle")
    /\ SignerInit(randint(1, p - 2))
    /\ HistInit
    /\ pc = "sign"
    /\ out = SigInitPrints

SigStep ==
    /\ pc' = "check"
    /\ out' = out \cup SigPrints
    /\ UNCHANGED <<calls, history, secondVars, sigHist>>

SigSign  == pc = "sign"  /\ sign            /\ SigStep
SigCheck == pc = "check" /\ check_signature /\ SigStep

SigNext == SigSign \/ SigCheck

SpecSig == SigInit /\ [][SigNext]_vars

-----------------------------------------------------------------------------
(* Any calls on one Prover and one Verifier, in any order.  The caller     *)
(* hands respond the challenge it holds: Verifier.challenge()'s last       *)
(* return, None when it never returned.                                    *)

MaxCalls == 4

Init ==
    /\ ProtocolInit
    /\ PartiesInit(Secrets)
    /\ CallerInit
    /\ SecondInit("idle")
    /\ SignerInit({DemoSecret})
    /\ HistInit
    /\ pc = "any"
    /\ out = {}

Called ==
    /\ calls' = calls + 1
    /\ TrackOrder /\ NoNonce /\ NoVerify
    /\ UNCHANGED <<pc, secondVars, sigHist, out>>

Commit    == calls < MaxCalls /\ commit    /\ Called
Challenge == calls < MaxCalls /\ challenge /\ Called
Respond   == calls < MaxCalls /\ respond(c) /\ Called
Verify    == calls < MaxCalls /\ verify    /\ Called

Next == Commit \/ Challenge \/ Respond \/ Verify

Spec == Init /\ [][Next]_vars

-----------------------------------------------------------------------------
(* One Prover: commit and respond in any order, any number of times, with  *)
(* any challenge a Verifier can draw                                       *)

ProverInit ==
    /\ ProtocolInit
    /\ PartiesInit(Secrets)
    /\ CallerInit
    /\ SecondInit("idle")
    /\ SignerInit({DemoSecret})
    /\ HistInit
    /\ pc = "prover"
    /\ out = {}

ProverStep(challenge_) ==
    /\ TrackNonce(challenge_) /\ NoOrder /\ NoVerify
    /\ UNCHANGED <<pc, calls, secondVars, sigHist, out>>

ProverCommit  == commit /\ ProverStep(None)
ProverRespond ==
    \E challenge_ \in randint(1, p - 2) : respond(challenge_) /\ ProverStep(challenge_)

ProverNext == ProverCommit \/ ProverRespond

SpecProver == ProverInit /\ [][ProverNext]_vars

-----------------------------------------------------------------------------
(* One Verifier handed a prepared commitment and response: it draws         *)
(* challenges and verifies, in any order, any number of times               *)

VerifierInit ==
    /\ ProtocolInit
    /\ PartiesInit({DemoSecret})
    /\ t \in 1 .. (p - 1)
    /\ s \in 0 .. (p - 2)
    /\ valid = "None"
    /\ SecondInit("idle")
    /\ SignerInit({DemoSecret})
    /\ HistInit
    /\ pc = "verifier"
    /\ out = {}

VerifierStep ==
    /\ TrackVerify /\ NoOrder /\ NoNonce
    /\ UNCHANGED <<pc, calls, secondVars, sigHist, out>>

VerifierChallenge == challenge /\ VerifierStep
VerifierVerify    == verify    /\ VerifierStep

VerifierNext == VerifierChallenge \/ VerifierVerify

SpecVerifier == VerifierInit /\ [][VerifierNext]_vars

-----------------------------------------------------------------------------
(* Two identification sessions of one Prover, each with a Verifier of its  *)
(* own, their calls interleaved in any way.  The first session takes       *)
(* run_protocol's steps; the steps below are the second session's, the     *)
(* same calls on the same Prover and on the second Verifier.               *)

\* SchnorrProtocol(11, 2): a smaller group than the default one, 2 being a
\* generator of order 10 modulo 11, so that all interleavings of two
\* sessions with all their draws can be enumerated
SmallP == 11
SmallG == 2

SmallProtocolInit ==
    /\ p = SmallP
    /\ g = SmallG

TwoInit ==
    /\ SmallProtocolInit
    /\ PartiesInit({DemoSecret})
    /\ CallerInit
    /\ SecondInit("commit")
    /\ SignerInit({DemoSecret})
    /\ HistInit
    /\ pc = "commit"
    /\ out = RunInitPrints

SecondStep(op, to) ==
    /\ pc_b' = to
    /\ lastOp' = op
    /\ err' = "none"
    /\ UNCHANGED <<protocolVars, x, y, verifierVars, callerVars, vy_b, sigVars,
                   pc, calls, history, sigHist, out>>

\* t_b = prover.commit()
SecondCommit ==
    /\ pc_b = "commit"
    /\ \E nonce \in randint(1, p - 2) :
          /\ r' = nonce
          /\ t_b' = commitment(g, nonce, p)
    /\ UNCHANGED <<c_b, s_b, valid_b>>
    /\ SecondStep("commit", "challenge")

\* c_b = verifier2.challenge()
SecondChallenge ==
    /\ pc_b = "challenge"
    /\ \E cc \in randint(1, p - 2) : c_b' = cc
    /\ UNCHANGED <<r, t_b, s_b, valid_b>>
    /\ SecondStep("challenge", "respond")

\* s_b = prover.respond(c_b)
SecondRespond ==
    /\ pc_b = "respond"
    /\ s_b' = response(r, c_b, x, p)
    /\ UNCHANGED <<r, c_b, t_b, valid_b>>
    /\ SecondStep("respond", "verify")

\* valid_b = verifier2.verify(t_b, s_b)
SecondVerify ==
    /\ pc_b = "verify"
    /\ valid_b' = Bool(verify_eq(g, p, vy_b, c_b, t_b, s_b))
    /\ UNCHANGED <<r, c_b, t_b, s_b>>
    /\ SecondStep("verify", "done")

TwoNext ==
    \/ RunCommit \/ RunChallenge \/ RunRespond \/ RunVerify
    \/ SecondCommit \/ SecondChallenge \/ SecondRespond \/ SecondVerify

SpecTwo == TwoInit /\ [][TwoNext]_vars

-----------------------------------------------------------------------------
(* The construction of the Prover from any integer a caller may pass as    *)
(* the secret, followed by run_protocol's calls.                           *)

\* The secrets passed to Prover(protocol, secret): inside 1..p-2, on its
\* edges, and outside (zero, the group order, above it, negative)
KeyCandidates == {0 - 2, 0, 1, DemoSecret, DefaultP - 2, DefaultP - 1, DefaultP}

KeyInit ==
    /\ ProtocolInit
    /\ x = None /\ y = None /\ r = None
    /\ vy = None /\ c = None
    /\ CallerInit
    /\ SecondInit("idle")
    /\ SignerInit({DemoSecret})
    /\ HistInit
    /\ pc = "construct"
    /\ out = {<<"p", p>>, <<"g", g>>}

\* prover = Prover(protocol, secret); verifier = Verifier(protocol, prover.y)
Construct ==
    /\ pc = "construct"
    /\ \E secret \in KeyCandidates :
          /\ x' = secret
          /\ y' = public_key_of(g, secret, p)
    /\ r' = None
    /\ vy' = y'
    /\ c' = None
    /\ pc' = "commit"
    /\ lastOp' = "Prover"
    /\ err' = "none"
    /\ out' = out \cup {<<"x", x'>>, <<"y", y'>>}
    /\ UNCHANGED <<protocolVars, callerVars, sigVars, calls, history,
                   secondVars, sigHist>>

KeyNext == Construct \/ RunCommit \/ RunChallenge \/ RunRespond \/ RunVerify

SpecKey == KeyInit /\ [][KeyNext]_vars

-----------------------------------------------------------------------------
(* verify_signature called with a message and a pair received from         *)
(* anywhere, a signature of schnorr_signature or not, and called again     *)
(* with the same arguments after other operations: at most MaxBetween      *)
(* signings, commitments and challenges.                                   *)

MaxBetween == 2

\* The pairs (s, e) a caller passes: a signature of the demo key (nonce 3,
\* "Hello, Crypto!"), and pairs with e on the edge of 0..p-2 and beyond it
Received == {<<9, e>> : e \in {12, p - 1, p}}

AnyInit ==
    /\ ProtocolInit
    /\ PartiesInit({DemoSecret})
    /\ CallerInit
    /\ SecondInit("idle")
    /\ SignerInit({DemoSecret})
    /\ HistInit
    /\ pc = "received"
    /\ out = {}

\* valid = verify_signature(m, signature, public_key, protocol)
AnyCheck ==
    /\ pc = "received"
    /\ \E m \in Messages, signature \in Received :
          /\ check_pair(m, signature)
          /\ TrackSig(m, signature)
    /\ pc' = "between"
    /\ UNCHANGED <<calls, history, secondVars, out>>

Between ==
    /\ pc = "between"
    /\ calls < MaxBetween
    /\ calls' = calls + 1
    /\ UNCHANGED <<pc, history, secondVars, sigHist, out>>

AnySign == Between /\ sign

AnyCommit == Between /\ commit

AnyChallenge == Between /\ challenge

\* the same call again
AnyRecheck ==
    /\ pc = "between"
    /\ check_pair(lastS.m, lastS.sig)
    /\ TrackSig(lastS.m, lastS.sig)
    /\ pc' = "done"
    /\ UNCHANGED <<calls, history, secondVars, out>>

AnyNext == AnyCheck \/ AnySign \/ AnyCommit \/ AnyChallenge \/ AnyRecheck

SpecAny == AnyInit /\ [][AnyNext]_vars

-----------------------------------------------------------------------------
(* The program run as a script: run_protocol(), then demo_signature(),     *)
(* both with the secret 6                                                  *)

MainInit ==
    /\ ProtocolInit
    /\ PartiesInit({DemoSecret})
    /\ CallerInit
    /\ SecondInit("idle")
    /\ SignerInit({DemoSecret})
    /\ HistInit
    /\ pc = "commit"
    /\ out = RunInitPrints

\* run_protocol() has returned; demo_signature() prints its keys
MainDemo ==
    /\ pc = "done"
    /\ pc' = "sign"
    /\ lastOp' = "demo_signature"
    /\ err' = "none"
    /\ out' = out \cup SigInitPrints
    /\ UNCHANGED <<protocolVars, proverVars, verifierVars, callerVars, sigVars,
                   calls, history, secondVars, sigHist>>

MainNext == RunNext \/ MainDemo \/ SigNext

SpecMain == MainInit /\ [][MainNext]_vars

-----------------------------------------------------------------------------
(* Properties *)

\* C1 (completeness): an honest run commit -> challenge -> respond(c) ->
\* verify(t, s) raises nothing and verify returns True, whatever the secret,
\* the nonce and the challenge.
C1_Completeness ==
    pc = "done" => (err = "none" /\ valid = "True")

C1_HonestRunAccepted ==
    /\ pc = "done"
    /\ valid = "True"
    /\ x # DemoSecret
    /\ t = commitment(g, r, p)
    /\ s = response(r, c, x, p)

\* C2 (signature correctness): the R that verify_signature reconstructs from
\* a signature of schnorr_signature is the signer's R = g^k mod p, with
\* SHA-256 and with any other challenge a hash function could give, and the
\* signature checked against the signed message is accepted.
C2_SignatureCorrectness ==
    /\ sig # NoSig => reconstruct_R(sig, public_key, g, p) = pow(g, k, p)
    /\ (lastOp = "verify_signature" /\ checked = message) => sig_valid = "True"
    \* whatever challenge e of [0, p-2] a hash function gives the signer
    /\ sig # NoSig =>
           \A e \in 0 .. (p - 2) :
               reconstruct_R(<<(k + e * private_key) % (p - 1), e>>,
                             public_key, g, p) = pow(g, k, p)

C2_SignedMessageAccepted ==
    /\ lastOp = "verify_signature"
    /\ checked = message
    /\ sig_valid = "True"
    /\ sig[2] # 0
    /\ private_key # DemoSecret

\* C3 as claimed (tamper detection): a signature checked against a message
\* other than the signed one is rejected.
C3_TamperedAlwaysRejected ==
    (lastOp = "verify_signature" /\ checked # message) => sig_valid = "False"

\* C3 as amended: a signature checked against a message other than the signed
\* one is accepted exactly when the two messages hash, with the signer's
\* R = g^k mod p, to the same challenge modulo p - 1, and rejected otherwise.
C3_TamperedRejectedUnlessCollision ==
    (lastOp = "verify_signature" /\ checked # message) =>
        (sig_valid = "True" <=>
            hash_challenge(pow(g, k, p), checked, p)
                = hash_challenge(pow(g, k, p), message, p))

C3_TamperedRejected ==
    /\ lastOp = "verify_signature"
    /\ checked # message
    /\ sig_valid = "False"
    /\ message = "Hello, Crypto!"
    /\ checked = "Hello, World!"

\* C4 (single-use nonce): no nonce drawn by a commit() has been used by
\* respond() for two different challenges.
C4_NonceNeverReused ==
    ~reused

\* C5 (respond before commit): respond(c) on a Prover whose commit() was
\* never called (self.r is still None) fails with ProtocolStateError.
C5_RespondBeforeCommitRefused ==
    (lastOp = "respond" /\ r = None) => err = "ProtocolStateError"

\* C6 (no re-commitment): a commit() made while a session is open (a nonce
\* is stored and has answered no challenge yet) is rejected and leaves the
\* stored nonce r as it was.
C6_NoRecommit ==
    [][(lastOp' = "commit" /\ r # None /\ usedWith = None) =>
           (r' = r /\ err' = "ProtocolStateError")]_vars

\* C7 as claimed (idempotent verify): a verify called with the commitment and
\* response of the verify before it returns the same result, whatever
\* challenge() calls happened between the two.
C7_SameArgsSameResult ==
    sameArgs => valid = prevRes

\* C7 as amended: a verify called with the commitment and response of the
\* verify before it returns the same result when Verifier.c holds the same
\* challenge at both calls.
C7_SameArgsSameChallengeSameResult ==
    (sameArgs /\ sameC) => valid = prevRes

C7_RepeatedVerify ==
    /\ lastOp = "verify"
    /\ sameArgs
    /\ sameC
    /\ valid = "True"
    /\ prevRes = "True"

\* The transcript (t, c, s) of the run, once verify has accepted it
Accepted == pc = "done" /\ valid = "True"

\* verify would also accept (t, c2, s2), for the run's commitment t
Accepts(c2, s2) == verify_eq(g, p, vy, c2, t, s2)

order == p - 1

Invertible(a, m) == \E b \in 1 .. (m - 1) : (a * b) % m = 1

Inverse(a, m) == CHOOSE b \in 1 .. (m - 1) : (a * b) % m = 1

\* (s1 - s2) * (c1 - c2)^-1 mod m
Extract(s1, s2, c1, c2, m) == ((s1 - s2) * Inverse(c1 - c2, m)) % m

\* C8 as claimed (knowledge extraction): for two accepting transcripts
\* (t, c, s) and (t, c2, s2) with c # c2, (c - c2)^-1 mod order exists and
\* (s - s2) * (c - c2)^-1 mod order is the secret x.
C8_ExtractionAlways ==
    Accepted =>
        \A c2 \in 1 .. (order - 1), s2 \in 0 .. (order - 1) :
            (c2 # c /\ Accepts(c2, s2)) =>
                /\ Invertible(c - c2, order)
                /\ Extract(s, s2, c, c2, order) = x

\* C8 as amended: for two accepting transcripts (t, c, s) and (t, c2, s2)
\* with c # c2, s - s2 = (c - c2) * x modulo order, and when c - c2 is
\* invertible modulo order (it is not whenever c - c2 is even or a multiple
\* of 11, order being 22) (s - s2) * (c - c2)^-1 mod order is the secret x.
C8_ExtractionWhenInvertible ==
    Accepted =>
        \A c2 \in 1 .. (order - 1), s2 \in 0 .. (order - 1) :
            (c2 # c /\ Accepts(c2, s2)) =>
                /\ ((s - s2) - (c - c2) * x) % order = 0
                /\ Invertible(c - c2, order) =>
                       Extract(s, s2, c, c2, order) = x

C8_SecretExtracted ==
    /\ Accepted
    /\ x = DemoSecret
    /\ \E c2 \in 1 .. (order - 1), s2 \in 0 .. (order - 1) :
          /\ c2 # c
          /\ Accepts(c2, s2)
          /\ Invertible(c - c2, order)
          /\ Extract(s, s2, c, c2, order) = x

RECURSIVE gcd(_, _)
gcd(a, b) == IF b = 0 THEN a ELSE gcd(b, a % b)

\* C9 as claimed (one challenge per transcript): for the commitment t and
\* response s that verify accepted under the challenge c, verify accepts
\* under no other challenge of [1, order-1].
C9_OneChallengeOnly ==
    Accepted =>
        \A c2 \in 1 .. (order - 1) : Accepts(c2, s) => c2 = c

\* C9 as amended: the challenges of [1, order-1] under which verify accepts
\* the same t and s differ from c by a multiple of the order of y, that is
\* (c2 - c) * x = 0 modulo order; c is the only one when x is coprime to
\* order.
C9_OneChallengeModuloOrderOfY ==
    Accepted =>
        /\ \A c2 \in 1 .. (order - 1) :
               Accepts(c2, s) => ((c2 - c) * x) % order = 0
        /\ gcd(x, order) = 1 =>
               \A c2 \in 1 .. (order - 1) : Accepts(c2, s) => c2 = c

C9_SecondChallengeAccepted ==
    /\ Accepted
    /\ x = DemoSecret
    /\ \E c2 \in 1 .. (order - 1) : c2 # c /\ Accepts(c2, s)

\* C10 (session order): every completed call came at its place in the order
\* commit, challenge, respond, verify; a call out of its place is refused.
C10_SessionOrder ==
    phase # "OutOfOrder"


\* C11 (independent sessions): in every interleaving of two honest sessions
\* of one Prover with two Verifiers, each session's verify(t, s) returns
\* True for that session's own commitment and response.
C11_BothSessionsAccepted ==
    /\ pc = "done" => valid = "True"
    /\ pc_b = "done" => valid_b = "True"


\* C12 (secret-key range): a Prover constructed with a secret outside
\* 1..order-1 (zero, the group order or more, a negative number) is rejected
\* with InvalidKey, and no public key is computed for it.
C12_InvalidKeyRejected ==
    (pc # "construct" /\ x \notin 1..(order - 1)) =>
        (err = "InvalidKey" /\ y = None)


\* C13 (concrete scenario): with p = 23, g = 5 and secret x = 6 the public
\* key is y = 8; with nonce r = 3 the commitment is t = 10; with challenge
\* c = 7 the response is s = (3 + 7*6) mod 22 = 1; and verify(10, 1) with
\* c = 7 computes lhs = 5 and rhs = 5 and accepts.
C13_ConcreteScenario ==
    (p = 23 /\ g = 5 /\ x = 6) =>
        /\ y = 8
        /\ (pc # "commit" /\ r = 3) =>
              /\ t = 10
              /\ (pc \in {"verify", "done"} /\ c = 7) =>
                    /\ s = 1
                    /\ pc = "done" =>
                          /\ verify_lhs(g, p, s) = 5
                          /\ verify_rhs(p, vy, c, t) = 5
                          /\ valid = "True"

C13_ScenarioVerified ==
    /\ p = 23 /\ g = 5 /\ x = 6 /\ y = 8
    /\ r = 3 /\ t = 10
    /\ c = 7 /\ s = 1
    /\ pc = "done"
    /\ lastOp = "verify"
    /\ valid = "True"


\* C14 (deterministic signature verification): two calls of verify_signature
\* with the same message, signature, public key and protocol return the same
\* result, whatever signing, committing or challenging is done between them.
C14_SameSignatureSameResult ==
    sameSigArgs => sig_valid = prevSigRes

C14_RepeatedCheckAfterOthers ==
    /\ pc = "done"
    /\ lastOp = "verify_signature"
    /\ sameSigArgs
    /\ calls = MaxBetween
    /\ k # None /\ r # None
    /\ lastS.sig # sig
    /\ prevSigRes = "True"
    /\ sig_valid = "True"


\* C15 (secret material is never exposed): in every run, neither the secret
\* key x nor a nonce (r or k) is written to output; only t, c, s, (s, e) and
\* the public key y leave the Prover or Signer.
C15_NoSecretInOutput ==
    \A written \in out : written[1] \notin {"x", "private_key", "r", "k"}

\* C16 (only the honest response is accepted): for every secret x, nonce r
\* and challenge c in 1..p-2, with t = g^r mod p and g a generator of order
\* p - 1, verify(t, s) accepts a response s in 0..p-2 if and only if
\* s = (r + c*x) mod (p - 1).
C16_OnlyHonestResponse ==
    pc \in {"respond", "verify", "done"} =>
        /\ t = commitment(g, r, p)
        /\ \A s2 \in 0..(p - 2) :
              verify_eq(g, p, vy, c, t, s2) <=> s2 = response(r, c, x, p)

C16_OthersRejected ==
    /\ pc = "done"
    /\ lastOp = "verify"
    /\ valid = "True"
    /\ s = response(r, c, x, p)
    /\ x = p - 2 /\ r = p - 2 /\ c = p - 2
    /\ \A s2 \in (0..(p - 2)) \ {s} : ~verify_eq(g, p, vy, c, t, s2)

\* C17 (value ranges): in every reachable state every nonce r and k and
\* every interactive challenge c lies in 1..order-1, every signature
\* challenge e and every response s (interactive or signature) lies in
\* 0..order-1, and every commitment t and R lies in 1..p-1, where
\* order = p - 1.
C17_ValueRanges ==
    /\ r # None => r \in 1..(order - 1)
    /\ k # None => k \in 1..(order - 1)
    /\ c # None => c \in 1..(order - 1)
    /\ s # None => s \in 0..(order - 1)
    /\ t # None => t \in 1..(p - 1)
    /\ sig # NoSig =>
          /\ sig[1] \in 0..(order - 1)
          /\ sig[2] \in 0..(order - 1)
          /\ commitment(g, k, p) \in 1..(p - 1)
          /\ reconstruct_R(sig, public_key, g, p) \in 1..(p - 1)

C17_AllValuesDrawn ==
    /\ pc = "check"
    /\ lastOp = "verify_signature"
    /\ r = order - 1 /\ c = order - 1 /\ k = order - 1
    /\ t = commitment(g, r, p)
    /\ s = response(r, c, x, p)
    /\ sig = schnorr_signature(message, private_key, k, g, p)

\* C18 (no negative exponent): for every pair (s, e) a caller passes to
\* verify_signature, pairs with e >= p included, the exponent p - 1 - e that
\* the public key is raised to is >= 0, or the call is rejected by input
\* validation before any arithmetic.
C18_NoNegativeExponent ==
    lastOp = "verify_signature" =>
        (inverse_exponent(p, lastS.sig[2]) >= 0 \/ err # "none")


\* C19 (keys and group parameters are never modified): no call of commit,
\* respond, challenge, verify, schnorr_signature or verify_signature changes
\* the group parameters (p, g), the Prover's secret x and public key y, the
\* Verifier's stored public key y, or the signer's keys; verify also leaves
\* the Verifier's stored challenge c and the Prover's nonce r unchanged.
C19_KeysNeverModified ==
    [][ /\ p' = p /\ g' = g
        /\ x' = x /\ y' = y
        /\ vy' = vy
        /\ private_key' = private_key /\ public_key' = public_key
        /\ lastOp' = "verify" => (c' = c /\ r' = r) ]_vars

C19_KeysAsConstructed ==
    /\ pc = "check"
    /\ lastOp = "verify_signature"
    /\ valid = "True"
    /\ sig_valid = "True"
    /\ p = DefaultP /\ g = DefaultG
    /\ x = DemoSecret
    /\ y = public_key_of(g, x, p)
    /\ vy = y
    /\ c # None /\ r # None

====
